---- MODULE Spec2Model ----
(***************************************************************************)
(* Model of src/main.rs: the single-window wgpu application.               *)
(*   App      { state: Option<State>, window_id: Option<WindowId> }        *)
(*   State    { window, surface, device, queue, config, pipeline,          *)
(*              vertex_buf, index_buf, index_count }                       *)
(* Handlers: App::resumed, App::window_event, App::about_to_wait.          *)
(* The GPU side is observed through `surface` (the configuration the live  *)
(* surface was last configured with), `calls` (what the handler processed  *)
(* last called on the surface and the queue) and `trace` (the frame calls  *)
(* of all redraws so far, in program order).                               *)
(***************************************************************************)
EXTENDS Integers, Sequences, FiniteSets, TLC

\* ---------------------------------------------------------------- bounds
\* window dimensions delivered by the windowing system range over 0..MaxDim
MaxDim == 2
\* render() is followed for at most MaxTrace acquire/draw/submit/present calls
MaxTrace == 8
\* at most MaxResumes "resumed" signals are delivered
MaxResumes == 2
\* advertised format lists have 1..MaxFormats entries
MaxFormats == 3
\* rectangle lists given to the mesh builder have 0..MaxRects entries
MaxRects == 3

VARIABLES
    caps,            \* surface.get_capabilities(&adapter): formats, present_modes, alpha_modes
    rects,           \* the rectangle list the mesh is built from
    state,           \* App.state : Option<State>
    window_id,       \* App.window_id : Option<WindowId>
    windows,         \* number of windows the event loop has created
    surface,         \* Option<config> : what the live surface was last configured with
    trace,           \* every call render() has made to acquire, draw, submit or present
    calls,           \* the surface/queue calls of the handler call in `last`, in program order
    redraw_pending,  \* the window's redraw-request flag (Window::request_redraw)
    proc,            \* "running" | "exited" | "panicked"
    last             \* the handler call processed last, with its arguments

vars == <<caps, rects, state, window_id, windows, surface, trace, calls, redraw_pending, proc, last>>

\* ------------------------------------------------------------ Option<T>
None == <<>>
Some(x) == <<x>>
UnwrapOr(o, d) == IF o = None THEN d ELSE o[1]

\* u32::max, as used by size.width.max(1)
Max(a, b) == IF a >= b THEN a ELSE b

\* --------------------------------------------------- capability negotiation
Formats == {"Bgra8Unorm", "Bgra8UnormSrgb", "Rgba8Unorm", "Rgba8UnormSrgb"}
SrgbFormats == {"Bgra8UnormSrgb", "Rgba8UnormSrgb"}
PresentModes == {"Fifo", "FifoRelaxed", "Immediate", "Mailbox"}

\* TextureFormat::is_srgb
is_srgb(f) == f \in SrgbFormats

\* caps.formats.iter().copied().find(|f| f.is_srgb()), scanning from position i
RECURSIVE FindSrgb(_, _)
FindSrgb(formats, i) ==
    IF i > Len(formats) THEN None
    ELSE IF is_srgb(formats[i]) THEN Some(formats[i])
    ELSE FindSrgb(formats, i + 1)

\* mutant: ignores the sRGB flag and always takes the first advertised format
SelectFormatFirst(c) == c.formats[1]

\* let format = ... .find(|f| f.is_srgb()).unwrap_or(caps.formats[0])
SelectFormat(c) == UnwrapOr(FindSrgb(c.formats, 1), c.formats[1])

\* mutant: asks for Mailbox whether or not it is advertised
SelectPresentModeAlwaysMailbox(c) == "Mailbox"

\* let present_mode = if caps.present_modes.contains(&Mailbox) { Mailbox } else { Fifo }
SelectPresentMode(c) ==
    IF "Mailbox" \in c.present_modes THEN "Mailbox" ELSE "Fifo"

\* ------------------------------------------------------------------ mesh
\* Coordinates are fixed point: rectangle fields and the quad template are
\* in 1/100, vertex positions (a product of two of them) in 1/10000.
base == << <<-25, -25>>, <<25, -25>>, <<25, 25>>, <<-25, 25>> >>
base_idx == <<0, 1, 2, 0, 2, 3>>
U16 == 65536

\* the compiled-in rectangle list (cx, cy, hw, hh)
Rects == << <<-60, -40, 18, 18>>, <<-10, -20, 12, 22>>, <<50, -30, 25, 10>>,
            <<-20, 50, 15, 15>>, <<60, 50, 10, 20>> >>

\* the four vertices pushed for rectangle r: [cx + v.pos[0]*hw, cy + v.pos[1]*hh]
RectVertices(r) ==
    [k \in 1..4 |-> <<r[1] * 100 + base[k][1] * r[3], r[2] * 100 + base[k][2] * r[4]>>]

\* mutant: offsets the indices by the index count written so far, not the vertex count
RectIndicesOffBySix(i) ==
    LET off == (i * 6) % U16 IN [k \in 1..6 |-> (base_idx[k] + off) % U16]

\* the six u16 indices pushed for the rectangle at position i (0-based)
RectIndices(i) ==
    LET off == (i * 4) % U16 IN [k \in 1..6 |-> (base_idx[k] + off) % U16]

\* for (i, &(cx, cy, hw, hh)) in rects.iter().enumerate() { ... }
RECURSIVE MeshLoop(_, _, _, _)
MeshLoop(rs, i, vertices, indices) ==
    IF i >= Len(rs) THEN [vertices |-> vertices, indices |-> indices]
    ELSE MeshLoop(rs, i + 1, vertices \o RectVertices(rs[i + 1]), indices \o RectIndices(i))

BuildMesh(rs) == MeshLoop(rs, 0, <<>>, <<>>)

\* ------------------------------------------------------------ State::new
\* The State built for window `win` whose inner size is (w, h); `gen` names
\* the device, pipeline and buffers created by this call.
StateNew(win, w, h, gen) ==
    LET mesh == BuildMesh(rects) IN
    [ window      |-> win,
      config      |-> [ format       |-> SelectFormat(caps),
                        present_mode |-> SelectPresentMode(caps),
                        alpha_mode   |-> caps.alpha_modes[1],
                        width        |-> Max(w, 1),
                        height       |-> Max(h, 1) ],
      pipeline    |-> gen,
      vertex_buf  |-> mesh.vertices,
      index_buf   |-> mesh.indices,
      index_count |-> Len(mesh.indices) ]

\* ------------------------------------------------------------ call trace
\* A call on the surface or the queue. arg is the index range of a
\* draw_indexed, the size of the configuration given to configure, <<0, 0>>
\* for the other calls; frame is the ordinal of the redraw that made the call
\* (0 for a configure made outside render()).
Call(op, frame, arg) == [op |-> op, frame |-> frame, arg |-> arg]
NoArg == <<0, 0>>
Configure(frame, cfg) == Call("configure", frame, <<cfg.width, cfg.height>>)
IsAcquire(c) == c.op \in {"acquire_ok", "acquire_err"}
IsFrameCall(c) == c.op # "configure"
\* number of get_current_texture calls so far = number of redraws processed
Frames(t) == Cardinality({i \in 1..Len(t) : IsAcquire(t[i])})
Fits(n) == Len(trace) + n <= MaxTrace

\* ---------------------------------------------------------------- events
Dims == 0..MaxDim
NoKey == "-"
Event(kind, w, h, key, key_state) ==
    [kind |-> kind, width |-> w, height |-> h, key |-> key, key_state |-> key_state]
Events ==
    {Event("Resized", w, h, NoKey, NoKey) : w \in Dims, h \in Dims}
    \cup {Event("RedrawRequested", 0, 0, NoKey, NoKey),
          Event("CloseRequested", 0, 0, NoKey, NoKey),
          Event("Focused", 0, 0, NoKey, NoKey)}
    \cup {Event("KeyboardInput", 0, 0, k, s) : k \in {"Escape", "KeyA"},
                                                s \in {"Pressed", "Released"}}
\* results of surface.get_current_texture()
AcquireResults == {"Ok", "Lost", "Outdated", "Timeout", "OutOfMemory", "Other"}
NoAcquire == "-"
WindowIds == 1..MaxResumes

Handled(handler, id, ev, acq) ==
    [handler |-> handler, id |-> id, event |-> ev, acquire |-> acq]
NoEvent == Event("-", 0, 0, NoKey, NoKey)

\* -------------------------------------------------------------- handlers
\* mutant: stores the sizes as delivered
ResizeNoClamp(w, h) ==
    LET cfg == [state[1].config EXCEPT !.width = w, !.height = h] IN
    /\ state' = Some([state[1] EXCEPT !.config = cfg])
    /\ surface' = Some(cfg)
    /\ calls' = << Configure(0, cfg) >>
    /\ trace' = trace

\* State::resize
Resize(w, h) ==
    LET cfg == [state[1].config EXCEPT !.width = Max(w, 1), !.height = Max(h, 1)] IN
    /\ state' = Some([state[1] EXCEPT !.config = cfg])
    /\ surface' = Some(cfg)
    /\ calls' = << Configure(0, cfg) >>
    /\ trace' = trace

\* mutant: after reconfiguring a lost surface it falls through and draws
RenderCallsNoReturnOnLost(acq, k) ==
    CASE acq = "Ok" ->
           << Call("acquire_ok", k, NoArg),
              Call("draw_indexed", k, <<0, state[1].index_count>>),
              Call("submit", k, NoArg),
              Call("present", k, NoArg) >>
      [] acq = "Lost" ->
           << Call("acquire_err", k, NoArg), Configure(k, state[1].config),
              Call("draw_indexed", k, <<0, state[1].index_count>>),
              Call("submit", k, NoArg) >>
      [] OTHER ->
           << Call("acquire_err", k, NoArg) >>

\* mutant: presents the texture before the commands are submitted
RenderCallsPresentFirst(acq, k) ==
    CASE acq = "Ok" ->
           << Call("acquire_ok", k, NoArg),
              Call("draw_indexed", k, <<0, state[1].index_count>>),
              Call("present", k, NoArg),
              Call("submit", k, NoArg) >>
      [] acq = "Lost" ->
           << Call("acquire_err", k, NoArg), Configure(k, state[1].config) >>
      [] OTHER ->
           << Call("acquire_err", k, NoArg) >>

\* the calls State::render makes, in program order, when get_current_texture
\* returns acq in the k-th redraw
RenderCalls(acq, k) ==
    CASE acq = "Ok" ->
           << Call("acquire_ok", k, NoArg),
              Call("draw_indexed", k, <<0, state[1].index_count>>),
              Call("submit", k, NoArg),
              Call("present", k, NoArg) >>
      [] acq = "Lost" ->
           << Call("acquire_err", k, NoArg), Configure(k, state[1].config) >>
      [] OTHER ->
           << Call("acquire_err", k, NoArg) >>

\* State::render
Render(acq) ==
    LET cs == RenderCalls(acq, Frames(trace) + 1) IN
    /\ state' = state
    /\ surface' = IF \E i \in DOMAIN cs : cs[i].op = "configure"
                  THEN Some(state[1].config) ELSE surface
    /\ calls' = cs
    /\ trace' = trace \o SelectSeq(cs, IsFrameCall)

\* mutant: exits when the key is released
ExitKeyOnRelease(ev) ==
    /\ ev.kind = "KeyboardInput"
    /\ ev.key = "Escape"
    /\ ev.key_state = "Released"

\* KeyboardInput { event: KeyEvent { physical_key: Code(Escape), state: Pressed, .. }, .. }
ExitKey(ev) ==
    /\ ev.kind = "KeyboardInput"
    /\ ev.key = "Escape"
    /\ ev.key_state = "Pressed"

\* App::resumed: the window's inner size is (w, h); ok is whether create_window,
\* create_surface, request_adapter and request_device all succeed (each is
\* unwrapped with expect, so a failure panics)
Resumed(w, h, ok) ==
    /\ proc = "running"
    /\ windows < MaxResumes
    /\ IF ok
       THEN LET id == windows + 1
                st == StateNew(id, w, h, id) IN
            /\ windows' = id
            /\ window_id' = Some(id)
            /\ state' = Some(st)
            /\ surface' = Some(st.config)
            /\ calls' = << Configure(0, st.config) >>
            /\ redraw_pending' = FALSE
            /\ proc' = proc
            /\ last' = Handled("resumed", id, Event("-", w, h, NoKey, NoKey), NoAcquire)
       ELSE /\ proc' = "panicked"
            /\ calls' = <<>>
            /\ last' = Handled("resumed", 0, Event("-", w, h, NoKey, NoKey), NoAcquire)
            /\ UNCHANGED <<windows, window_id, state, surface, redraw_pending>>
    /\ UNCHANGED <<caps, rects, trace>>

\* mutant: a redraw request that finds no State builds one on the spot
WindowEventLazyInit(id, ev, acq) ==
    /\ proc = "running"
    /\ Fits(4)
    /\ ev.kind = "RedrawRequested"
    /\ acq = "Ok"
    /\ state' = IF state = None THEN Some(StateNew(id, 1, 1, 1)) ELSE state
    /\ calls' = << Call("acquire_ok", Frames(trace) + 1, NoArg),
                   Call("draw_indexed", Frames(trace) + 1, <<0, state'[1].index_count>>),
                   Call("submit", Frames(trace) + 1, NoArg),
                   Call("present", Frames(trace) + 1, NoArg) >>
    /\ trace' = trace \o calls'
    /\ surface' = Some(state'[1].config)
    /\ last' = Handled("window_event", id, ev, acq)
    /\ UNCHANGED <<caps, rects, window_id, windows, redraw_pending, proc>>

\* App::window_event
WindowEvent(id, ev, acq) ==
    /\ proc = "running"
    /\ IF Some(id) # window_id \/ state = None
       THEN /\ last' = Handled("window_event", id, ev, NoAcquire)
            /\ calls' = <<>>
            /\ UNCHANGED <<state, surface, trace, redraw_pending, proc>>
       ELSE CASE ev.kind = "Resized" ->
                   /\ Resize(ev.width, ev.height)
                   /\ last' = Handled("window_event", id, ev, NoAcquire)
                   /\ UNCHANGED <<redraw_pending, proc>>
              [] ev.kind = "RedrawRequested" ->
                   /\ Fits(4)
                   /\ Render(acq)
                   /\ redraw_pending' = FALSE
                   /\ last' = Handled("window_event", id, ev, acq)
                   /\ UNCHANGED proc
              [] ev.kind = "CloseRequested" \/ ExitKey(ev) ->
                   /\ proc' = "exited"
                   /\ calls' = <<>>
                   /\ last' = Handled("window_event", id, ev, NoAcquire)
                   /\ UNCHANGED <<state, surface, trace, redraw_pending>>
              [] OTHER ->
                   /\ calls' = <<>>
                   /\ last' = Handled("window_event", id, ev, NoAcquire)
                   /\ UNCHANGED <<state, surface, trace, redraw_pending, proc>>
    /\ UNCHANGED <<caps, rects, window_id, windows>>

\* mutant: never asks for another redraw
AboutToWaitNoRequest == UNCHANGED vars

\* App::about_to_wait
AboutToWait ==
    /\ proc = "running"
    /\ redraw_pending' = IF state # None THEN TRUE ELSE redraw_pending
    /\ UNCHANGED <<caps, rects, state, window_id, windows, surface, trace, calls, proc, last>>

\* ------------------------------------------------------- specifications
\* the capabilities of the machine the main specification runs on
DeviceCaps ==
    [formats |-> <<"Bgra8Unorm", "Bgra8UnormSrgb">>,
     present_modes |-> {"Fifo", "Mailbox"},
     alpha_modes |-> <<"Opaque">>]

\* App::default, before run_app delivers anything
AppDefault ==
    /\ state = None
    /\ window_id = None
    /\ windows = 0
    /\ surface = None
    /\ trace = <<>>
    /\ calls = <<>>
    /\ redraw_pending = FALSE
    /\ proc = "running"
    /\ last = Handled("none", 0, NoEvent, NoAcquire)

Init ==
    /\ caps = DeviceCaps
    /\ rects = Rects
    /\ AppDefault

DeliverResumed == \E w \in Dims, h \in Dims, ok \in BOOLEAN : Resumed(w, h, ok)
\* get_current_texture is only called, and so only has a result, on a redraw
DeliverWindowEvent ==
    \E id \in WindowIds, ev \in Events :
        \E acq \in (IF ev.kind = "RedrawRequested" THEN AcquireResults ELSE {NoAcquire}) :
            WindowEvent(id, ev, acq)

\* event_loop.run_app(&mut app)
Next ==
    \/ DeliverResumed
    \/ DeliverWindowEvent
    \/ AboutToWait

Spec == Init /\ [][Next]_vars

\* winit calls about_to_wait every time the event loop has drained its events
\* and is about to block, so the handler cannot be postponed for ever
FairSpec == Spec /\ WF_vars(AboutToWait)

\* -- startup on every capability set a compatible adapter can advertise
\* (Fifo is always advertised; format lists are non-empty and duplicate-free)
FormatLists ==
    {f \in UNION {[1..n -> Formats] : n \in 1..MaxFormats} :
        \A i, j \in DOMAIN f : i # j => f[i] # f[j]}
AllCaps ==
    {[formats |-> f, present_modes |-> m \cup {"Fifo"}, alpha_modes |-> <<"Opaque">>] :
        f \in FormatLists, m \in SUBSET (PresentModes \ {"Fifo"})}

InitCaps ==
    /\ caps \in AllCaps
    /\ rects = Rects
    /\ AppDefault

NextStartup == DeliverResumed

SpecCaps == InitCaps /\ [][NextStartup]_vars

\* -- the mesh builder on every rectangle list of 0..MaxRects rectangles
RectPool == {Rects[1], Rects[2], Rects[3]}
RectLists == UNION {[1..n -> RectPool] : n \in 0..MaxRects}

InitMesh ==
    /\ caps = DeviceCaps
    /\ rects \in RectLists
    /\ AppDefault

SpecMesh == InitMesh /\ [][NextStartup]_vars

\* ---------------------------------------------------------------- claims
\* the handler processed last was window_event, and it passed both guards
\* (the event was for the application's window and a State existed)
Accepted ==
    /\ last.handler = "window_event"
    /\ state # None
    /\ Some(last.id) = window_id

\* C1: once a close request or an Escape key press has been handled for the
\* running application's window the process has exited, and after the exit
\* nothing is acquired, drawn, submitted, presented or configured any more.
C1_ExitStopsRendering ==
    /\ [](( /\ Accepted
            /\ \/ last.event.kind = "CloseRequested"
               \/ /\ last.event.kind = "KeyboardInput"
                  /\ last.event.key = "Escape"
                  /\ last.event.key_state = "Pressed" )
          => proc = "exited")
    /\ [][proc # "running" =>
            (trace' = trace /\ calls' = calls /\ surface' = surface /\ proc' = proc)]_vars

\* an Escape press ended a run in which a frame had been presented
C1_Witness ==
    /\ proc = "exited"
    /\ last.event.kind = "KeyboardInput"
    /\ \E i \in 1..Len(trace) : trace[i].op = "present"

\* what u32::max(x, 1) must give, written without Max
Clamped(x) == IF x = 0 THEN 1 ELSE x

\* C2: the configuration always has width >= 1 and height >= 1, the startup
\* configuration and every resize(w, h) store the clamped sizes, and the
\* surface is only ever configured with that configuration.
C2_ConfigAtLeastOne ==
    /\ surface # None => (surface[1].width >= 1 /\ surface[1].height >= 1)
    /\ state # None =>
        /\ state[1].config.width >= 1
        /\ state[1].config.height >= 1
        /\ surface = Some(state[1].config)
        /\ ( \/ Accepted /\ last.event.kind = "Resized"
             \/ last.handler = "resumed" /\ last.id # 0 )
           => /\ state[1].config.width = Clamped(last.event.width)
              /\ state[1].config.height = Clamped(last.event.height)

\* resize(0, 0) was handled and left a 1x1 configuration
C2_Witness ==
    /\ Accepted
    /\ last.event.kind = "Resized"
    /\ last.event.width = 0
    /\ last.event.height = 0
    /\ state[1].config.width = 1
    /\ state[1].config.height = 1

\* C3: a redraw whose acquisition fails skips the frame: the failed
\* acquisition is the only frame call made (no draw, submit or present), the
\* application stays running with its State untouched, and the surface is
\* reconfigured, with the unchanged current configuration, exactly when the
\* error is Lost.
C3_AcquireFailureSkipsFrame ==
    /\ []( ( /\ Accepted
             /\ last.event.kind = "RedrawRequested"
             /\ last.acquire \notin {"Ok", NoAcquire} )
           => /\ proc = "running"
              /\ trace # <<>>
              /\ trace[Len(trace)] = [op |-> "acquire_err", frame |-> Frames(trace),
                                      arg |-> <<0, 0>>]
              /\ surface = Some(state[1].config)
              /\ calls = IF last.acquire = "Lost"
                         THEN << trace[Len(trace)],
                                 [op |-> "configure", frame |-> Frames(trace),
                                  arg |-> <<state[1].config.width, state[1].config.height>>] >>
                         ELSE << trace[Len(trace)] >> )
    /\ [][ ( /\ last'.handler = "window_event"
             /\ last'.event.kind = "RedrawRequested"
             /\ last'.acquire \notin {"Ok", NoAcquire}
             /\ trace' # trace )
           => /\ state' = state
              /\ Len(trace') = Len(trace) + 1
              /\ last'.acquire # "Lost" => surface' = surface ]_vars

\* a frame was skipped on a lost surface, the surface was reconfigured, and
\* this was the retry of an earlier skipped frame
C3_Witness ==
    /\ Accepted
    /\ last.acquire = "Lost"
    /\ Len(calls) = 2
    /\ calls[2].op = "configure"
    /\ Len(trace) >= 2
    /\ trace[Len(trace) - 1].op = "acquire_err"

\* C4: the present mode chosen at startup is Mailbox when Mailbox is
\* advertised and Fifo otherwise, and it is always one of the advertised modes.
C4_PresentModeAdvertised ==
    state # None =>
        /\ state[1].config.present_mode \in caps.present_modes
        /\ "Mailbox" \in caps.present_modes => state[1].config.present_mode = "Mailbox"
        /\ "Mailbox" \notin caps.present_modes => state[1].config.present_mode = "Fifo"

\* started on a device that advertises other modes but not Mailbox
C4_Witness ==
    /\ state # None
    /\ "Mailbox" \notin caps.present_modes
    /\ "Immediate" \in caps.present_modes
    /\ state[1].config.present_mode = "Fifo"

\* C5: the format chosen at startup is the first sRGB format of the
\* advertised list when there is one and the first format of the list when
\* there is none; it always belongs to the list.
C5_FirstSrgbFormat ==
    state # None =>
        LET fs == caps.formats
            chosen == state[1].config.format
            srgb == {i \in DOMAIN fs : fs[i] \in SrgbFormats}
        IN /\ \E i \in DOMAIN fs : fs[i] = chosen
           /\ srgb = {} => chosen = fs[1]
           /\ srgb # {} => \E i \in srgb : /\ chosen = fs[i]
                                           /\ \A j \in srgb : i <= j

\* started on a list holding two sRGB formats behind a non-sRGB one
C5_Witness ==
    /\ state # None
    /\ Len(caps.formats) >= 3
    /\ caps.formats[1] \notin SrgbFormats
    /\ caps.formats[2] \in SrgbFormats
    /\ caps.formats[3] \in SrgbFormats
    /\ state[1].config.format = caps.formats[2]

\* C6: before "resumed" has been processed there is no State, nothing has been
\* acquired, submitted, presented or configured, and a window event handled in
\* that state changes none of it; any frame call comes after a "resumed" that
\* built the State and configured the surface.
C6_NothingBeforeResumed ==
    /\ []( /\ state = None =>
                (trace = <<>> /\ calls = <<>> /\ surface = None /\ window_id = None)
           /\ trace # <<>> => (windows >= 1 /\ state # None /\ surface # None) )
    /\ [][ (state = None /\ last'.handler = "window_event")
           => (state' = None /\ trace' = trace /\ calls' = <<>> /\ surface' = surface) ]_vars

\* a redraw request was handled while the application was uninitialized
C6_Witness ==
    /\ state = None
    /\ last.handler = "window_event"
    /\ last.event.kind = "RedrawRequested"

\* C7: once built, the State and its pipeline are never replaced.
C7_PipelineBuiltOnce ==
    [][state # None => (state' # None /\ state'[1].pipeline = state[1].pipeline)]_vars

\* C8: the trace is made of whole frames: every successful acquisition is
\* followed at once by one draw_indexed over 0..index_count, the submit and the
\* present of the same frame; nothing else draws, submits or presents; and
\* frames appear in the order their redraw events were handled.
C8_FrameOrder ==
    LET n == Len(trace) IN
    /\ \A i \in 1..n : trace[i].op = "acquire_ok" =>
          /\ i + 3 <= n
          /\ trace[i + 1] = [op |-> "draw_indexed", frame |-> trace[i].frame,
                             arg |-> <<0, Len(state[1].index_buf)>>]
          /\ trace[i + 2] = [op |-> "submit", frame |-> trace[i].frame, arg |-> <<0, 0>>]
          /\ trace[i + 3] = [op |-> "present", frame |-> trace[i].frame, arg |-> <<0, 0>>]
    /\ \A i \in 1..n : trace[i].op = "draw_indexed" => (i > 1 /\ trace[i - 1].op = "acquire_ok")
    /\ \A i \in 1..n : trace[i].op = "submit" => (i > 1 /\ trace[i - 1].op = "draw_indexed")
    /\ \A i \in 1..n : trace[i].op = "present" => (i > 1 /\ trace[i - 1].op = "submit")
    /\ \A i \in 1..n : trace[i].op \in {"acquire_ok", "acquire_err"} =>
          trace[i].frame = 1 + Cardinality({j \in 1..(i - 1) :
                                              trace[j].op \in {"acquire_ok", "acquire_err"}})
    /\ \A i, j \in 1..n :
          (i < j /\ trace[i].op = "acquire_ok" /\ trace[j].op \in {"acquire_ok", "acquire_err"})
          => \E p \in (i + 1)..(j - 1) : trace[p].op = "present" /\ trace[p].frame = trace[i].frame
    /\ (Accepted /\ last.acquire = "Ok") =>
          (Len(calls) = 4 /\ calls = SubSeq(trace, n - 3, n))

\* two frames were presented one after the other
C8_Witness ==
    \E i, j \in 1..Len(trace) :
        /\ i < j
        /\ trace[i].op = "present"
        /\ trace[j].op = "present"
        /\ trace[j].frame = trace[i].frame + 1

\* a redraw request was rendered or skipped by the handler processed last
RedrawProcessed ==
    /\ last.handler = "window_event"
    /\ last.event.kind = "RedrawRequested"
    /\ last.acquire # NoAcquire

\* C9: every processed redraw, presented or skipped, is eventually followed by
\* a new redraw request, unless the process ends first.
C9_RedrawRequestedAgain ==
    (RedrawProcessed /\ ~redraw_pending) ~> (redraw_pending \/ proc # "running")

\* a new redraw has been requested after a skipped frame
C9_Witness ==
    /\ RedrawProcessed
    /\ last.acquire = "Outdated"
    /\ redraw_pending
    /\ proc = "running"

\* C10: a list of N rectangles gives 4N vertices and 6N indices, the index
\* count is 6N, a multiple of 3, every index is below 4N, and rectangle i
\* contributes the indices 4i + (0, 1, 2, 0, 2, 3).
C10_MeshShape ==
    state # None =>
        LET N == Len(rects)
            st == state[1]
        IN /\ Len(st.vertex_buf) = 4 * N
           /\ Len(st.index_buf) = 6 * N
           /\ st.index_count = 6 * N
           /\ st.index_count % 3 = 0
           /\ \A p \in DOMAIN st.index_buf : st.index_buf[p] < 4 * N
           /\ \A i \in 0..(N - 1) :
                 /\ st.index_buf[6 * i + 1] = 4 * i
                 /\ st.index_buf[6 * i + 2] = 4 * i + 1
                 /\ st.index_buf[6 * i + 3] = 4 * i + 2
                 /\ st.index_buf[6 * i + 4] = 4 * i
                 /\ st.index_buf[6 * i + 5] = 4 * i + 2
                 /\ st.index_buf[6 * i + 6] = 4 * i + 3

\* a mesh was built from at least two rectangles
C10_Witness ==
    /\ state # None
    /\ Len(rects) >= 2
    /\ state[1].index_count = 6 * Len(rects)

====
